---- MODULE Spec2Model ----
(***************************************************************************)
(* Av1an (src/av1an.py): the chunk pipeline of one input.                  *)
(*                                                                         *)
(* The main thread runs video_encoding: setup_routine, get_video_queue,    *)
(* compose_encoding_queue, encoding_loop, concatenate_video.  The pool of  *)
(* encoding_loop runs one encode() task per queued chunk on at most        *)
(* `workers` threads; every task ends in frame_check, which reads          *)
(* done.json, adds its entry and rewrites the file in place.               *)
(* The process can be killed at any step and started again, with or        *)
(* without --resume, on the same temp directory (Spec).  SpecRun is one    *)
(* process from main() on any arguments, with the operator's interrupt.    *)
(* SpecSearch is target_vmaf, the search encode() makes for one chunk when *)
(* --vmaf_target is given, on any scores of its probes.                    *)
(***************************************************************************)
EXTENDS Integers, Sequences, FiniteSets, TLC

\* ------------------------------------------------------------------ bounds
NChunks == 2        \* split files the splitter produces for the input
MaxFrames == 2      \* largest frame count of one chunk
MaxWorkers == 2     \* largest --workers value
MaxRuns == 2        \* process starts on the same temp directory
MaxSize == 2        \* largest st_size of a split file
MaxTarget == 2      \* largest --vmaf_target
MaxCq == 2          \* largest --min_cq and --max_cq
MaxSteps == 4       \* largest --vmaf_steps
ScoreSpread == 2    \* largest distance of a score from the target, in halves
MaxCut == 11        \* largest frame number of a cut
MaxCuts == 2        \* most cuts of an input
NInputs == 2        \* inputs given to one process

\* --passes, default=2: the command stages of one chunk
Passes == 2

Chunks == 1..NChunks
Frames == 1..MaxFrames

VARIABLES
    encoder,    \* self.d['encoder']
    video_params,
                \* self.d['video_params'] is given
    ffmpeg,     \* find_executable('ffmpeg')
    enc_exe,    \* find_executable(enc) of the encoder's executable
    input,      \* the input file exists
    vmaf_target,
                \* self.d['vmaf_target']; 0: not given
    min_cq,     \* self.d['min_cq']
    max_cq,     \* self.d['max_cq']
    vmaf_steps, \* self.d['vmaf_steps']
    mean,       \* read_vmaf_xml of each probe of target_vmaf, by its count,
                \* in halves of a point
    passes,     \* self.d['passes']
    boost,      \* self.d['boost']
    no_check,   \* self.d['no_check']
    keep,       \* self.d['keep']
    workers,    \* self.d['workers'] after determine_resources
    resume,     \* self.d['resume'] of the running process
    runs,       \* process starts so far
    interrupted,
                \* a process of this job was killed in its Encode stage
    src,        \* frame_probe of the input's segments: [Chunks -> Frames]
    st_size,    \* x.stat().st_size of the split files
    pc,         \* position of the main thread
    split,      \* chunks with a file in <temp>/split
    enc,        \* frame_probe of <temp>/encode/<c>; 0: no usable file
    journal,    \* <temp>/done.json
    audio,      \* <temp>/audio.mkv exists
    output,     \* frame count of the output file, -1: none
    queue,      \* list returned by get_video_queue
    commands,   \* list returned by compose_encoding_queue
    initial,    \* encoding_loop's local `initial`; -1: not computed
    pending,    \* submitted commands no pool thread has taken yet
    task,       \* position of encode() for each chunk
    stage,      \* index of the command stage encode() runs next
    frame,      \* tqdm_bar's local `frame` of the running stage
    d,          \* frame_check's local d (the journal as it was read)
    stage_err,  \* chunks whose stage runner raised in this process
    cmds,       \* encode's local `commands` of each chunk
    counter,    \* Counter: tqdm's n; -1: not created
    tvpc,       \* position of target_vmaf
    count,      \* target_vmaf's loop index: probes that did not return
    vmaf_cq,    \* target_vmaf's list of (mean, cq)
    tg_cq,      \* the quantizer target_vmaf returned; -1: none
    scenes,     \* self.d['scenes']: "" not given, "0", or a file's path
    scenes_file,
                \* the file at the path of --scenes
    pyscene,    \* the cut list the scene detection finds in the input
    detected,   \* this process ran the scene detection
    framenums,  \* setup_routine's local framenums
    srpc,       \* position of setup_routine around split_routine
    file        \* main_queue's loop: the number of the input being encoded

cfgvars == <<encoder, video_params, ffmpeg, enc_exe, input, vmaf_target,
             min_cq, max_cq, vmaf_steps, mean, passes, boost, no_check, keep,
             workers, src, st_size>>
runvars == <<resume, runs, interrupted>>
fsvars == <<split, enc, journal, audio, output>>
poolvars == <<pending, task, stage, frame, d, stage_err, cmds, counter>>
tvvars == <<tvpc, count, vmaf_cq, tg_cq>>
scvars == <<scenes, scenes_file, pyscene, detected, framenums, srpc>>
vars == <<encoder, video_params, ffmpeg, enc_exe, input, vmaf_target, min_cq,
          max_cq, vmaf_steps, mean, passes, boost, no_check, keep, workers,
          resume, runs, interrupted, src, st_size, pc, split, enc, journal,
          audio, output, queue, commands, initial, pending, task, stage,
          frame, d, stage_err, cmds, counter, tvpc, count, vmaf_cq, tg_cq,
          scenes, scenes_file, pyscene, detected, framenums, srpc, file>>

\* ------------------------------------------------------------- done.json
\* kind "absent": no file; "empty": the file exists with no content (it was
\* opened with 'w' and nothing has been flushed); "json": a parseable file.
NoDone == [c \in {} |-> 0]
Absent == [kind |-> "absent", total |-> 0, done |-> NoDone]
Truncated == [kind |-> "empty", total |-> 0, done |-> NoDone]
Json(total, done) == [kind |-> "json", total |-> total, done |-> done]

RECURSIVE SumOver(_, _)
SumOver(f, S) ==
    IF S = {} THEN 0
    ELSE LET c == CHOOSE x \in S : TRUE IN f[c] + SumOver(f, S \ {c})

\* sum(data['done'].values())
SumDone(done) == SumOver(done, DOMAIN done)

\* frame_probe_fast(input): the frame count of the whole input
TotalFrames == SumOver(src, Chunks)

\* -------------------------------------------------------- Python values
\* a command string of one stage; cq: the quantizer its token gives, 0: the
\* one of video_params
Str(cq) == [type |-> "str", cq |-> cq]

\* a tuple
Tuple(items) == [type |-> "tuple", items |-> items]

TypeError == [type |-> "TypeError"]

\* a + b: tuples are concatenated; a string and a tuple raise TypeError
PyAdd(a, b) ==
    IF a.type = "tuple" /\ b.type = "tuple" THEN Tuple(a.items \o b.items)
    ELSE IF a.type = "str" /\ b.type = "str" THEN a
    ELSE TypeError

\* t[n:]
Slice(t, n) == Tuple(SubSeq(t.items, n + 1, Len(t.items)))

\* --------------------------------------------------------------- start
NoEnc == [c \in Chunks |-> 0]
NoTask == [c \in Chunks |-> "none"]
NoStage == [c \in Chunks |-> 0]
NoD == [c \in Chunks |-> Absent]
NoCmds == [c \in Chunks |-> Tuple(<<>>)]

\* self.encoders: the names --encoder may have
Encoders == {"svt_av1", "rav1e", "aom", "vpx"}

\* --vmaf_target is not given, the other arguments of the search have
\* their defaults, and target_vmaf is not called
NoVmaf ==
    /\ vmaf_target = 0
    /\ min_cq = 25
    /\ max_cq = 50
    /\ vmaf_steps = 4
    /\ mean = <<>>
    /\ tvpc = "idle"
    /\ count = 0
    /\ vmaf_cq = <<>>
    /\ tg_cq = -1

\* the value of a local that is not assigned yet
None == [type |-> "None"]

\* the file at the path of --scenes: not there, or there with a text
NoFile == [exists |-> FALSE, text |-> <<>>]
File(text) == [exists |-> TRUE, text |-> text]

\* no --scenes, and setup_routine is not at split_routine
NoScenes ==
    /\ scenes = ""
    /\ scenes_file = NoFile
    /\ pyscene = <<>>
    /\ detected = FALSE
    /\ framenums = None
    /\ srpc = "idle"

\* a process at the top of main() on a system with no temp folder, at
\* the first input
Started ==
    /\ runs = 1
    /\ interrupted = FALSE
    /\ pc = "main"
    /\ split = {}
    /\ enc = NoEnc
    /\ journal = Absent
    /\ audio = FALSE
    /\ output = -1
    /\ queue = <<>>
    /\ commands = <<>>
    /\ initial = -1
    /\ pending = <<>>
    /\ task = NoTask
    /\ stage = NoStage
    /\ frame = NoStage
    /\ d = NoD
    /\ stage_err = {}
    /\ cmds = NoCmds
    /\ counter = -1
    /\ file = 1

\* such a process, run without --resume
Fresh == resume = FALSE /\ Started

\* the default encoder with its executables and an input that exists;
\* split files of one size, so that the queue has every order
Init ==
    /\ encoder = "aom"
    /\ video_params = FALSE
    /\ ffmpeg = TRUE
    /\ enc_exe = TRUE
    /\ input = TRUE
    /\ passes = Passes
    /\ boost = FALSE
    /\ no_check \in BOOLEAN
    /\ keep \in BOOLEAN
    /\ workers \in 1..MaxWorkers
    /\ src \in [Chunks -> Frames]
    /\ st_size = [c \in Chunks |-> 1]
    /\ NoVmaf
    /\ Fresh
    /\ NoScenes

\* ------------------------------------------------- main thread: the stages
\* check_executables: no ffmpeg, an encoder that is not in self.encoders
\* or whose executable is not found: terminate()
CheckExecutables ==
    /\ pc = "main"
    /\ pc' = IF ffmpeg /\ encoder \in Encoders /\ enc_exe
             THEN "inputs" ELSE "terminated"
    /\ UNCHANGED <<cfgvars, scvars, file, tvvars, runvars, fsvars, queue,
                   commands, initial, poolvars>>

\* process_inputs: no input, or one that does not exist: terminate();
\* main_queue and video_encoding follow
ProcessInputs ==
    /\ pc = "inputs"
    /\ pc' = IF input THEN "start" ELSE "terminated"
    /\ UNCHANGED <<cfgvars, scvars, file, tvvars, runvars, fsvars, queue,
                   commands, initial, poolvars>>

\* setup_routine, its test: a resumed run with a done.json skips setup,
\* split and audio
SetupRoutine ==
    /\ pc = "start"
    /\ pc' = IF resume /\ journal.kind # "absent" THEN "queue" ELSE "setup"
    /\ UNCHANGED <<cfgvars, scvars, file, tvvars, runvars, fsvars, queue,
                   commands, initial, poolvars>>

\* the temp folder is left as it is
KeepTemp == UNCHANGED <<split, enc, journal, audio>>

\* shutil.rmtree(temp): nothing of the temp folder is left
RemoveTemp ==
    /\ split' = {}
    /\ enc' = NoEnc
    /\ journal' = Absent
    /\ audio' = FALSE

\* setup: without --resume the temp folder is removed, then the folders
\* are made
Setup ==
    /\ pc = "setup"
    /\ IF ~resume
       THEN RemoveTemp
       ELSE UNCHANGED <<split, enc, journal, audio>>
    /\ pc' = "split"
    /\ UNCHANGED <<cfgvars, scvars, file, tvvars, runvars, output, queue,
                   commands, initial, poolvars>>

\* split(input, temp, framenums): one file per segment of the input in
\* <temp>/split
SplitFiles == Chunks

\* split_routine and split
Split ==
    /\ pc = "split"
    /\ split' = SplitFiles
    /\ pc' = "audio"
    /\ UNCHANGED <<cfgvars, scvars, file, tvvars, runvars, enc, journal,
                   audio, output, queue, commands, initial, poolvars>>

\* extract_audio: an audio.mkv that exists is reused, otherwise the audio
\* track of the source is written to it
ExtractAudio ==
    /\ pc = "audio"
    /\ audio' = TRUE
    /\ pc' = "queue"
    /\ UNCHANGED <<cfgvars, scvars, file, tvvars, runvars, split, enc,
                   journal, output, queue, commands, initial, poolvars>>

\* the queue in any order
UnsortedQueues(files) ==
    {q \in [1..Cardinality(files) -> files] :
        \A i, j \in 1..Cardinality(files) : i # j => q[i] # q[j]}

\* sorted(queue, key=lambda x: -x.stat().st_size); the order of iterdir()
\* among files of one size is any
SortedQueues(files) ==
    {q \in [1..Cardinality(files) -> files] :
        /\ \A i, j \in 1..Cardinality(files) : i # j => q[i] # q[j]
        /\ \A i, j \in 1..Cardinality(files) :
              i < j => st_size[q[i]] >= st_size[q[j]]}

\* the journal is not consulted
DoneKeysIgnored == {}

\* the names get_video_queue leaves out: data['done'].keys() of a resumed
\* run; a done.json that does not parse raises, and the queue stays whole
DoneKeys ==
    IF resume /\ journal.kind = "json" THEN DOMAIN journal.done ELSE {}

GetVideoQueue ==
    /\ pc = "queue"
    /\ \E q \in SortedQueues(split \ DoneKeys) :
          /\ queue' = q
          /\ pc' = IF Len(q) = 0 THEN "terminated" ELSE "compose"
    /\ UNCHANGED <<cfgvars, scvars, file, tvvars, runvars, fsvars, commands,
                   initial, poolvars>>

\* self.d.get('temp') / dir / name
Path(dir, name) == [dir |-> dir, name |-> name]

\* every file goes to the encode path of the first file of the list
InputsToFirst(files) ==
    [i \in DOMAIN files |->
        <<Path("split", files[i]), Path("encode", files[1]), files[i]>>]

\* inputs: for each file its split path, its encode path and itself
Inputs(files) ==
    [i \in DOMAIN files |->
        <<Path("split", files[i]), Path("encode", files[i]), files[i]>>]

\* aom_vpx_encode, rav1e_encode, svt_av1_encode: one command tuple for
\* each input, in the order of the inputs; of the tuple the model keeps
\* its last element, the pair (split path, encode path)
EncodeCommands(inputs) ==
    [i \in DOMAIN inputs |-> <<inputs[i][1], inputs[i][2]>>]

\* compose_encoding_queue: svt_av1 without video params is refused here
ComposeEncodingQueue ==
    /\ pc = "compose"
    /\ IF encoder = "svt_av1" /\ ~video_params
       THEN /\ commands' = commands
            /\ pc' = "terminated"
       ELSE /\ commands' = EncodeCommands(Inputs(queue))
            /\ pc' = IF Len(commands') = 0 THEN "terminated" ELSE "loop"
    /\ UNCHANGED <<cfgvars, scvars, file, tvvars, runvars, fsvars, queue,
                   initial, poolvars>>

\* ------------------------------------------------------ encoding_loop
\* The head of encoding_loop.  Resumed with a done.json: the file is
\* loaded (a file that does not parse raises out of encoding_loop, which
\* catches KeyboardInterrupt only) and initial is the sum of its done
\* values.  Otherwise initial is 0 and done.json is opened for writing,
\* which empties it.
EncodingLoopLoad ==
    /\ pc = "loop"
    /\ IF resume /\ journal.kind # "absent"
       THEN /\ IF journal.kind = "json"
               THEN /\ initial' = SumDone(journal.done)
                    /\ pc' = "submit"
               ELSE /\ initial' = initial
                    /\ pc' = "crashed"
            /\ journal' = journal
       ELSE /\ initial' = 0
            /\ journal' = Truncated
            /\ pc' = "loop_dump"
    /\ UNCHANGED <<cfgvars, scvars, file, tvvars, runvars, split, enc, audio,
                   output, queue, commands, poolvars>>

\* json.dump(d, f) of d = {'total': total, 'done': {}} and the close
EncodingLoopDump ==
    /\ pc = "loop_dump"
    /\ journal' = Json(TotalFrames, NoDone)
    /\ pc' = "submit"
    /\ UNCHANGED <<cfgvars, scvars, file, tvvars, runvars, split, enc, audio,
                   output, queue, commands, initial, poolvars>>

InQueue == {queue[i] : i \in 1..Len(queue)}

\* the chunks the commands are for
Sources == {commands[i][1].name : i \in DOMAIN commands}

\* Counter(total, initial) is made and every command is submitted
Submit ==
    /\ pc = "submit"
    /\ counter' = initial
    /\ pending' = commands
    /\ task' = [c \in Chunks |-> IF c \in Sources THEN "queued" ELSE "none"]
    /\ pc' = "pool"
    /\ UNCHANGED <<cfgvars, scvars, file, tvvars, runvars, fsvars, queue,
                   commands, initial, stage, frame, d, stage_err, cmds>>

\* a task that ended with an error keeps its thread
RunningOrFailed ==
    {c \in Chunks :
        task[c] \in {"encode", "fc_read", "fc_probe", "fc_dump", "error", "exit"}}

Running == {c \in Chunks : task[c] \in {"encode", "fc_read", "fc_probe", "fc_dump"}}

\* Concat does not wait for the tasks
AllDoneUnchecked == TRUE

\* as_completed has yielded every future and the executor's exit has
\* joined its threads: no command waits and none runs
AllDone == pending = <<>> /\ Running = {}

\* The end of the `with` block.  A future that holds the SystemExit of
\* terminate() raises it out of future.result(), past `except Exception`;
\* a KeyboardInterrupt of the main thread is caught by encoding_loop,
\* which calls terminate().  Both leave the block through the executor's
\* exit, which waits for the tasks.  Otherwise Concat is next.
PoolJoin ==
    /\ pc \in {"pool", "drain"}
    /\ AllDone
    /\ pc' = IF pc = "drain" \/ \E c \in Chunks : task[c] = "exit"
             THEN "terminated" ELSE "concat"
    /\ UNCHANGED <<cfgvars, scvars, file, tvvars, runvars, fsvars, queue,
                   commands, initial, poolvars>>

\* ----------------------------------------------------------- encode()
\* every thread is free
ThreadAlwaysFree == TRUE

\* ThreadPoolExecutor(max_workers=workers): a thread of the pool is idle,
\* or the pool may still make one
ThreadFree == Cardinality(Running) < workers

\* the command strings of the stages of one chunk, as the builders make
\* them: one for each pass, with the quantizer of video_params
StageStrings == [i \in 1..passes |-> Str(0)]

\* the command tuple encode() gets: the stage strings and, last, the
\* pair (split path, encode path)
LocalCommands(cmd) == Tuple(StageStrings \o <<Tuple(cmd)>>)

\* man_cq(command, cq): the command string with its quantizer token set
ManCq(command, cq) == Str(cq)

\* boosting(command, brightness, bl, br, new_cq): the command string with
\* the adjusted quantizer
Boosting(command, cq) == Str(cq)

\* Target Vmaf Mode: cm1, cm2 and the commands that replace the local
\* ones
TargetQuality(c0, cq) ==
    IF passes = 2
    THEN PyAdd(Tuple(<<ManCq(c0.items[1], cq), ManCq(c0.items[2], cq)>>),
               Slice(c0, 2))
    ELSE PyAdd(ManCq(c0.items[1], cq), Slice(c0, 1))

\* Boost: com0, com1 and the commands that replace the local ones; what
\* raises in this block is printed and the commands stay
Boost(c1, cq) ==
    LET r == IF passes = 2
             THEN PyAdd(Tuple(<<Boosting(c1.items[1], cq),
                                Boosting(c1.items[2], cq)>>), Slice(c1, 2))
             ELSE PyAdd(Boosting(c1.items[1], cq), Slice(c1, 1))
    IN IF r.type = "TypeError" THEN c1 ELSE r

\* the quantizers target_vmaf may return, and boosting may choose
TargetCqs == IF vmaf_target # 0 THEN min_cq..max_cq ELSE {0}
BoostCqs == IF boost THEN 1..MaxCq ELSE {0}

\* A pool thread takes the next submitted command: commands in the order
\* they were submitted, also while the executor's exit waits.  encode()
\* runs up to its stage loop: the target-quality and the boost rewrite of
\* its commands.  An exception of the first goes to the last `except` of
\* encode, which prints it: encode returns, no stage has run.
TaskStart(c) ==
    /\ pc \in {"pool", "drain"}
    /\ pending # <<>>
    /\ Head(pending)[1].name = c
    /\ ThreadFree
    /\ pending' = Tail(pending)
    /\ \E q \in TargetCqs, b \in BoostCqs :
          LET c0 == LocalCommands(Head(pending))
              c1 == IF vmaf_target # 0 THEN TargetQuality(c0, q) ELSE c0
          IN IF c1.type = "TypeError"
             THEN /\ task' = [task EXCEPT ![c] = "error"]
                  /\ cmds' = [cmds EXCEPT ![c] = c0]
                  /\ stage' = stage
             ELSE /\ task' = [task EXCEPT ![c] = "encode"]
                  /\ cmds' = [cmds EXCEPT ![c] = IF boost THEN Boost(c1, b) ELSE c1]
                  /\ stage' = [stage EXCEPT ![c] = 1]
    /\ frame' = [frame EXCEPT ![c] = 0]
    /\ UNCHANGED <<cfgvars, scvars, file, tvvars, runvars, pc, fsvars, queue,
                   commands, initial, d, stage_err, counter>>

\* for i in commands[:-1]: the stages of the task of chunk c
Stages(c) == Len(cmds[c].items) - 1

\* source, target = Path(commands[-1][0]), Path(commands[-1][1]): the
\* name of the encoded file of the task of chunk c
target(c) ==
    LET i == CHOOSE i \in DOMAIN commands : commands[i][1].name = c
    IN commands[i][2].name

\* the bar is set to the value instead of moved by it
CounterSet(value) == value

\* Counter.update(value): self.tqdm_bar.update(value) adds value to n
CounterUpdate(value) == counter + value

\* tqdm_bar reads a progress line of the running stage: the frames seen
\* since the last one go to the counter
Progress(c) ==
    /\ task[c] = "encode"
    /\ \E new \in (frame[c] + 1)..src[c] :
          /\ counter' = CounterUpdate(new - frame[c])
          /\ frame' = [frame EXCEPT ![c] = new]
    /\ UNCHANGED <<cfgvars, scvars, file, tvvars, runvars, pc, fsvars, queue,
                   commands, initial, pending, task, stage, d, stage_err,
                   cmds>>

\* after the last stage of commands[:-1], frame_check is next
NextStage(c) ==
    /\ task' = [task EXCEPT ![c] =
                   IF stage[c] = Stages(c) THEN "fc_read" ELSE "encode"]
    /\ stage' = [stage EXCEPT ![c] = stage[c] + 1]
    /\ frame' = [frame EXCEPT ![c] = 0]

\* a stage ends without raising; the last one leaves the encoded file,
\* with the source's frame count or another
StageDone(c) ==
    /\ task[c] = "encode"
    /\ IF stage[c] = Stages(c)
       THEN \E n \in Frames : enc' = [enc EXCEPT ![target(c)] = n]
       ELSE enc' = enc
    /\ NextStage(c)
    /\ UNCHANGED <<cfgvars, scvars, file, tvvars, runvars, pc, split, journal,
                   audio, output, queue, commands, initial, pending, d,
                   stage_err, cmds, counter>>

\* tqdm_bar raises: encode prints 'Error at encode' and goes on with the
\* next stage; the encoded file is as it was, or unusable
StageRaise(c) ==
    /\ task[c] = "encode"
    /\ stage_err' = stage_err \cup {c}
    /\ IF stage[c] = Stages(c)
       THEN \E n \in {enc[target(c)], 0} : enc' = [enc EXCEPT ![target(c)] = n]
       ELSE enc' = enc
    /\ NextStage(c)
    /\ UNCHANGED <<cfgvars, scvars, file, tvvars, runvars, pc, split, journal,
                   audio, output, queue, commands, initial, pending, d, cmds,
                   counter>>

\* -------------------------------------------------------- frame_check
\* with status_file.open() as f: d = json.load(f).  A file that does not
\* parse raises; `except Exception` prints it and frame_check returns
\* without an entry.
FcRead(c) ==
    /\ task[c] = "fc_read"
    /\ IF journal.kind = "json"
       THEN /\ d' = [d EXCEPT ![c] = journal]
            /\ task' = [task EXCEPT ![c] = "fc_probe"]
       ELSE /\ d' = d
            /\ task' = [task EXCEPT ![c] = "finished"]
    /\ UNCHANGED <<cfgvars, scvars, file, tvvars, runvars, pc, fsvars, queue,
                   commands, initial, pending, stage, frame, stage_err, cmds,
                   counter>>

\* d['done'][source.name] = s1
AddEntry(dd, c, s1) ==
    [dd EXCEPT !.done = [x \in DOMAIN dd.done \cup {c} |->
                            IF x = c THEN s1 ELSE dd.done[x]]]

\* the frame counts are not compared
VerifiedUnchecked(c) == TRUE

\* whether frame_check writes the entry: no_check, or s1 == s2
Verified(c) == no_check \/ src[c] = enc[target(c)]

\* The frame probes and the decision.  With no_check, or with equal frame
\* counts, the entry is added to d and done.json is opened with 'w', which
\* empties the file.  An encoded file frame_probe cannot read raises
\* IndexError: 'Encoding failed', terminate().  Different counts are
\* printed and nothing is written.
FcProbe(c) ==
    /\ task[c] = "fc_probe"
    /\ IF ~no_check /\ enc[target(c)] = 0
       THEN /\ task' = [task EXCEPT ![c] = "exit"]
            /\ d' = [d EXCEPT ![c] = Absent]
            /\ journal' = journal
       ELSE IF Verified(c)
       THEN /\ task' = [task EXCEPT ![c] = "fc_dump"]
            /\ d' = [d EXCEPT ![c] = AddEntry(d[c], c, src[c])]
            /\ journal' = Truncated
       ELSE /\ task' = [task EXCEPT ![c] = "finished"]
            /\ d' = [d EXCEPT ![c] = Absent]
            /\ journal' = journal
    /\ UNCHANGED <<cfgvars, scvars, file, tvvars, runvars, pc, split, enc,
                   audio, output, queue, commands, initial, pending, stage,
                   frame, stage_err, cmds, counter>>

\* json.dump(d, f) and the close of the file; encode's last lines follow
FcDump(c) ==
    /\ task[c] = "fc_dump"
    /\ journal' = Json(d[c].total, d[c].done)
    /\ task' = [task EXCEPT ![c] = "finished"]
    /\ d' = [d EXCEPT ![c] = Absent]
    /\ UNCHANGED <<cfgvars, scvars, file, tvvars, runvars, pc, split, enc,
                   audio, output, queue, commands, initial, pending, stage,
                   frame, stage_err, cmds, counter>>

\* ------------------------------------------------------------- concat
\* concatenate_video(temp, output_file, keep): the output holds the frames
\* of the encoded files; without keep the temp folder is removed
ConcatenateVideo ==
    /\ output' = SumOver(enc, Chunks)
    /\ IF keep
       THEN UNCHANGED <<split, enc, journal, audio>>
       ELSE RemoveTemp

\* the call of concatenate_video returns
Concat ==
    /\ pc = "concat"
    /\ ConcatenateVideo
    /\ pc' = "done"
    /\ UNCHANGED <<cfgvars, scvars, file, tvvars, runvars, queue, commands,
                   initial, poolvars>>

\* concatenate_video raises: 'Concatenation failed', terminate()
ConcatFail ==
    /\ pc = "concat"
    /\ pc' = "terminated"
    /\ UNCHANGED <<cfgvars, scvars, file, tvvars, runvars, fsvars, queue,
                   commands, initial, poolvars>>

\* ------------------------------------------------------- target_vmaf
\* round(mean) of a score given in halves: Python rounds a half to the
\* even neighbour
Round(m) ==
    IF m % 2 = 0 THEN m \div 2
    ELSE IF (m \div 2) % 2 = 0 THEN m \div 2 ELSE (m \div 2) + 1

\* encoding_fork(min_cq, max_cq, steps): the candidates in the order of
\* the probes: max_cq, min_cq, then the steps - 2 interior values, evenly
\* spaced
EncodingFork(lo, hi, steps) ==
    [i \in 1..steps |->
        IF i = 1 THEN hi
        ELSE IF i = 2 THEN lo
        ELSE lo + ((i - 2) * (hi - lo)) \div (steps - 1)]

\* interpolate_data(vmaf_cq, vmaf_target): the quantizers the fit may
\* give, within min_cq and max_cq
InterpolateData == min_cq..max_cq

\* the skip on a high score at any probe
EarlySkipHighAnyCount(n, m) == Round(m) > vmaf_target

\* Early Skip on big CQ
EarlySkipHigh(n, m) == n = 0 /\ Round(m) > vmaf_target

\* Early Skip on small CQ
EarlySkipLow(n, m) == n = 1 /\ Round(m) < vmaf_target

pipevars == <<runvars, pc, fsvars, queue, commands, initial, poolvars>>

\* the head of target_vmaf: fewer than 4 steps: terminate()
TargetVmaf ==
    /\ tvpc = "call"
    /\ tvpc' = IF vmaf_steps < 4 THEN "terminated" ELSE "probe"
    /\ UNCHANGED <<cfgvars, scvars, file, pipevars, count, vmaf_cq, tg_cq>>

\* one turn of the loop over the probes: the probe is encoded and scored,
\* (mean, cq) is appended, and the two early skips are tried
Probe ==
    /\ tvpc = "probe"
    /\ count < vmaf_steps
    /\ vmaf_cq' = Append(vmaf_cq,
            <<mean[count], EncodingFork(min_cq, max_cq, vmaf_steps)[count + 1]>>)
    /\ IF EarlySkipHigh(count, mean[count])
       THEN /\ tg_cq' = max_cq
            /\ tvpc' = "returned"
            /\ count' = count
       ELSE IF EarlySkipLow(count, mean[count])
       THEN /\ tg_cq' = min_cq
            /\ tvpc' = "returned"
            /\ count' = count
       ELSE /\ tg_cq' = tg_cq
            /\ tvpc' = tvpc
            /\ count' = count + 1
    /\ UNCHANGED <<cfgvars, scvars, file, pipevars>>

\* the loop is over: return int(cq[0]) of the interpolation
Interpolate ==
    /\ tvpc = "probe"
    /\ count = vmaf_steps
    /\ tg_cq' \in InterpolateData
    /\ tvpc' = "returned"
    /\ UNCHANGED <<cfgvars, scvars, file, pipevars, count, vmaf_cq>>

\* ---------------------------------------------------- the process itself
Stopped == pc \in {"done", "terminated", "crashed", "stopped", "killed"}

\* the process is killed: every thread stops where it is and its memory is
\* gone, the files stay
Kill ==
    /\ ~Stopped
    /\ pc' = "killed"
    /\ pending' = <<>>
    /\ task' = NoTask
    /\ stage' = NoStage
    /\ frame' = NoStage
    /\ d' = NoD
    /\ stage_err' = {}
    /\ cmds' = NoCmds
    /\ counter' = -1
    /\ queue' = <<>>
    /\ commands' = <<>>
    /\ initial' = -1
    /\ interrupted' = (interrupted \/ pc = "pool")
    /\ UNCHANGED <<cfgvars, scvars, file, tvvars, resume, runs, fsvars>>

\* the operator starts the program again on the same input and temp
\* folder, with or without --resume
Restart ==
    /\ Stopped
    /\ runs < MaxRuns
    /\ runs' = runs + 1
    /\ resume' \in BOOLEAN
    /\ pc' = "main"
    /\ queue' = <<>>
    /\ commands' = <<>>
    /\ initial' = -1
    /\ pending' = <<>>
    /\ task' = NoTask
    /\ stage' = NoStage
    /\ frame' = NoStage
    /\ d' = NoD
    /\ stage_err' = {}
    /\ cmds' = NoCmds
    /\ counter' = -1
    /\ file' = 1
    /\ UNCHANGED <<cfgvars, scvars, tvvars, interrupted, fsvars>>

\* The operator's interrupt: KeyboardInterrupt is raised in the main
\* thread.  In the `with` block of encoding_loop the executor's exit runs
\* first: it waits for the tasks, the submitted commands that wait are
\* still taken by the pool's threads; then, as anywhere in encoding_loop,
\* `except KeyboardInterrupt` calls terminate().  Anywhere else main()
\* catches it: 'Encoding stopped', sys.exit().
KeyboardInterrupt ==
    /\ ~Stopped
    /\ pc # "drain"
    /\ pc' = CASE pc = "pool" -> "drain"
                [] pc \in {"loop", "loop_dump", "submit"} -> "terminated"
                [] OTHER -> "stopped"
    /\ UNCHANGED <<cfgvars, scvars, file, tvvars, runvars, fsvars, queue,
                   commands, initial, poolvars>>

\* sys.exit() of main(): the exit status of no argument
SysExit == 0

\* terminate(): the process exits with a status that is not zero
Terminate == 1

\* the exit status of the process; -1: it runs, or it was killed
ExitCode ==
    CASE pc \in {"done", "stopped"} -> SysExit
      [] pc \in {"terminated", "crashed"} -> Terminate
      [] OTHER -> -1

Next ==
    \/ CheckExecutables
    \/ ProcessInputs
    \/ SetupRoutine
    \/ Setup
    \/ Split
    \/ ExtractAudio
    \/ GetVideoQueue
    \/ ComposeEncodingQueue
    \/ EncodingLoopLoad
    \/ EncodingLoopDump
    \/ Submit
    \/ PoolJoin
    \/ \E c \in Chunks : TaskStart(c)
    \/ \E c \in Chunks : Progress(c)
    \/ \E c \in Chunks : StageDone(c)
    \/ \E c \in Chunks : StageRaise(c)
    \/ \E c \in Chunks : FcRead(c)
    \/ \E c \in Chunks : FcProbe(c)
    \/ \E c \in Chunks : FcDump(c)
    \/ Concat
    \/ ConcatFail
    \/ Kill
    \/ Restart

Spec == Init /\ [][Next]_vars

\* ------------------------------------------------ one process, any input
\* names --encoder is given: two of self.encoders and one that is not
EncoderNames == {"aom", "svt_av1", "x264"}

InitRun ==
    /\ encoder \in EncoderNames
    /\ video_params \in BOOLEAN
    /\ ffmpeg \in BOOLEAN
    /\ enc_exe \in BOOLEAN
    /\ input \in BOOLEAN
    /\ passes = Passes
    /\ boost = FALSE
    /\ no_check \in BOOLEAN
    /\ keep \in BOOLEAN
    /\ workers \in 1..MaxWorkers
    /\ src = [c \in Chunks |-> 1]
    /\ st_size \in [Chunks -> 1..MaxSize]
    /\ NoVmaf
    /\ Fresh
    /\ NoScenes

NextRun ==
    \/ CheckExecutables
    \/ ProcessInputs
    \/ SetupRoutine
    \/ Setup
    \/ Split
    \/ ExtractAudio
    \/ GetVideoQueue
    \/ ComposeEncodingQueue
    \/ EncodingLoopLoad
    \/ EncodingLoopDump
    \/ Submit
    \/ PoolJoin
    \/ \E c \in Chunks : TaskStart(c)
    \/ \E c \in Chunks : Progress(c)
    \/ \E c \in Chunks : StageDone(c)
    \/ \E c \in Chunks : StageRaise(c)
    \/ \E c \in Chunks : FcRead(c)
    \/ \E c \in Chunks : FcProbe(c)
    \/ \E c \in Chunks : FcDump(c)
    \/ Concat
    \/ ConcatFail
    \/ KeyboardInterrupt

SpecRun == InitRun /\ [][NextRun]_vars

\* ------------------------- one process, target quality and boost modes
\* target_vmaf is not running
NoSearch ==
    /\ mean = <<>>
    /\ tvpc = "idle"
    /\ count = 0
    /\ vmaf_cq = <<>>
    /\ tg_cq = -1

InitEncode ==
    /\ encoder = "aom"
    /\ video_params = FALSE
    /\ ffmpeg = TRUE
    /\ enc_exe = TRUE
    /\ input = TRUE
    /\ vmaf_target \in 0..1
    /\ min_cq = 1
    /\ max_cq = MaxCq
    /\ vmaf_steps = 4
    /\ passes \in 1..Passes
    /\ boost \in BOOLEAN
    /\ no_check \in BOOLEAN
    /\ keep = TRUE
    /\ workers \in 1..MaxWorkers
    /\ src = [c \in Chunks |-> 1]
    /\ st_size = [c \in Chunks |-> 1]
    /\ NoSearch
    /\ Fresh
    /\ NoScenes

NextEncode ==
    \/ CheckExecutables
    \/ ProcessInputs
    \/ SetupRoutine
    \/ Setup
    \/ Split
    \/ ExtractAudio
    \/ GetVideoQueue
    \/ ComposeEncodingQueue
    \/ EncodingLoopLoad
    \/ EncodingLoopDump
    \/ Submit
    \/ PoolJoin
    \/ \E c \in Chunks : TaskStart(c)
    \/ \E c \in Chunks : Progress(c)
    \/ \E c \in Chunks : StageDone(c)
    \/ \E c \in Chunks : StageRaise(c)
    \/ \E c \in Chunks : FcRead(c)
    \/ \E c \in Chunks : FcProbe(c)
    \/ \E c \in Chunks : FcDump(c)
    \/ Concat
    \/ ConcatFail

SpecEncode == InitEncode /\ [][NextEncode]_vars

\* The scheduling of the Encode stage.  A thread of the pool that is free
\* takes the command at the head of the executor's queue; the external
\* process of a running stage exits, with or without an error; the steps
\* of frame_check are taken; and the main thread, in as_completed and the
\* executor's exit, goes on once the tasks have ended.
FairPool ==
    /\ WF_vars(PoolJoin)
    /\ \A c \in Chunks :
          /\ WF_vars(TaskStart(c))
          /\ WF_vars(StageDone(c) \/ StageRaise(c))
          /\ WF_vars(FcRead(c))
          /\ WF_vars(FcProbe(c))
          /\ WF_vars(FcDump(c))

FairEncode == SpecEncode /\ FairPool

\* --------------------------------------- target_vmaf on any probe scores
\* the scores a probe may have: the target and what lies around it, in
\* halves of a point
Scores(t) == (2 * t - ScoreSpread)..(2 * t + ScoreSpread)

\* encode() has called target_vmaf(source) for a chunk
InitSearch ==
    /\ encoder = "aom"
    /\ video_params = FALSE
    /\ ffmpeg = TRUE
    /\ enc_exe = TRUE
    /\ input = TRUE
    /\ vmaf_target \in 1..MaxTarget
    /\ min_cq \in 1..MaxCq
    /\ max_cq \in min_cq..MaxCq
    /\ vmaf_steps \in 3..MaxSteps
    /\ mean \in [0..(vmaf_steps - 1) -> Scores(vmaf_target)]
    /\ passes = Passes
    /\ boost = FALSE
    /\ no_check = FALSE
    /\ keep = FALSE
    /\ workers = 1
    /\ src = [c \in Chunks |-> 1]
    /\ st_size = [c \in Chunks |-> 1]
    /\ Fresh
    /\ NoScenes
    /\ tvpc = "call"
    /\ count = 0
    /\ vmaf_cq = <<>>
    /\ tg_cq = -1

NextSearch ==
    \/ TargetVmaf
    \/ Probe
    \/ Interpolate

SpecSearch == InitSearch /\ [][NextSearch]_vars

\* ------------------------------------------ main_queue: several inputs
\* video_encoding has returned and the loop of main_queue goes to the
\* next input: self.d['input'] = file, and video_encoding is called with
\* new locals, on the temp folder as the last input left it
NextInput ==
    /\ pc = "done"
    /\ file < NInputs
    /\ file' = file + 1
    /\ pc' = "start"
    /\ output' = -1
    /\ queue' = <<>>
    /\ commands' = <<>>
    /\ initial' = -1
    /\ pending' = <<>>
    /\ task' = NoTask
    /\ stage' = NoStage
    /\ frame' = NoStage
    /\ d' = NoD
    /\ stage_err' = {}
    /\ cmds' = NoCmds
    /\ counter' = -1
    /\ UNCHANGED <<cfgvars, scvars, tvvars, runvars, split, enc, journal,
                   audio>>

\* one process given NInputs inputs that exist, with or without --resume
\* and --keep
InitQueue ==
    /\ encoder = "aom"
    /\ video_params = FALSE
    /\ ffmpeg = TRUE
    /\ enc_exe = TRUE
    /\ input = TRUE
    /\ passes = Passes
    /\ boost = FALSE
    /\ no_check \in BOOLEAN
    /\ keep \in BOOLEAN
    /\ workers \in 1..MaxWorkers
    /\ src = [c \in Chunks |-> 1]
    /\ st_size = [c \in Chunks |-> 1]
    /\ NoVmaf
    /\ resume \in BOOLEAN
    /\ Started
    /\ NoScenes

NextQueue ==
    \/ CheckExecutables
    \/ ProcessInputs
    \/ SetupRoutine
    \/ Setup
    \/ Split
    \/ ExtractAudio
    \/ GetVideoQueue
    \/ ComposeEncodingQueue
    \/ EncodingLoopLoad
    \/ EncodingLoopDump
    \/ Submit
    \/ PoolJoin
    \/ \E c \in Chunks : TaskStart(c)
    \/ \E c \in Chunks : Progress(c)
    \/ \E c \in Chunks : StageDone(c)
    \/ \E c \in Chunks : StageRaise(c)
    \/ \E c \in Chunks : FcRead(c)
    \/ \E c \in Chunks : FcProbe(c)
    \/ \E c \in Chunks : FcDump(c)
    \/ Concat
    \/ ConcatFail
    \/ NextInput

SpecQueue == InitQueue /\ [][NextQueue]_vars

\* ------------------------------------- split_routine and the scenes file
\* Python values: an int, a list, and the error literal_eval raises
PyInt(n) == [type |-> "int", n |-> n]
PyList(items) == [type |-> "list", items |-> items]
SyntaxError == [type |-> "SyntaxError"]

\* a text is a sequence of characters
DigitChars == <<"0", "1", "2", "3", "4", "5", "6", "7", "8", "9">>
Digits == {DigitChars[i] : i \in 1..Len(DigitChars)}
DigitOf(ch) == (CHOOSE i \in 1..Len(DigitChars) : DigitChars[i] = ch) - 1
Whitespace == {" ", "\n"}

\* str(x) of a non-negative int
RECURSIVE StrInt(_)
StrInt(x) ==
    IF x < 10 THEN <<DigitChars[x + 1]>>
    ELSE StrInt(x \div 10) \o <<DigitChars[(x % 10) + 1]>>

\* ','.join([str(x) for x in sc])
RECURSIVE Join(_)
Join(sc) ==
    IF sc = <<>> THEN <<>>
    ELSE IF Len(sc) = 1 THEN StrInt(sc[1])
    ELSE StrInt(sc[1]) \o <<",">> \o Join(Tail(sc))

\* text.strip()
RECURSIVE LStrip(_)
LStrip(t) == IF t # <<>> /\ Head(t) \in Whitespace THEN LStrip(Tail(t)) ELSE t
RECURSIVE RStrip(_)
RStrip(t) ==
    IF t # <<>> /\ t[Len(t)] \in Whitespace
    THEN RStrip(SubSeq(t, 1, Len(t) - 1))
    ELSE t
Strip(t) == RStrip(LStrip(t))

\* the pieces of a text between its commas
RECURSIVE Tokens(_)
Tokens(t) ==
    IF \E i \in 1..Len(t) : t[i] = ","
    THEN LET i == CHOOSE j \in 1..Len(t) :
                      t[j] = "," /\ \A k \in 1..(j - 1) : t[k] # ","
         IN  <<SubSeq(t, 1, i - 1)>> \o Tokens(SubSeq(t, i + 1, Len(t)))
    ELSE <<t>>

\* a decimal literal of Python: digits, no leading zero, and its value
IsNumber(t) ==
    /\ t # <<>>
    /\ \A i \in 1..Len(t) : t[i] \in Digits
    /\ Len(t) > 1 => t[1] # "0"
RECURSIVE Number(_)
Number(t) ==
    IF Len(t) = 1 THEN DigitOf(t[1])
    ELSE 10 * Number(SubSeq(t, 1, Len(t) - 1)) + DigitOf(t[Len(t)])

\* ast.literal_eval of a text of numbers and commas: no text is a
\* SyntaxError, one number is an int, numbers with commas (the last
\* comma may end the text) are a tuple
LiteralEval(t) ==
    LET toks == [i \in 1..Len(Tokens(t)) |-> Strip(Tokens(t)[i])]
        body == IF Len(toks) > 1 /\ toks[Len(toks)] = <<>>
                THEN SubSeq(toks, 1, Len(toks) - 1)
                ELSE toks
    IN  IF \E i \in 1..Len(body) : ~IsNumber(body[i]) THEN SyntaxError
        ELSE IF Len(toks) = 1 THEN PyInt(Number(toks[1]))
        ELSE Tuple([i \in 1..Len(body) |-> Number(body[i])])

\* split_routine with --scenes 0: no detection, an empty list
SkipDetection ==
    /\ srpc = "split_routine"
    /\ scenes = "0"
    /\ framenums' = PyList(<<>>)
    /\ srpc' = "returned"
    /\ UNCHANGED <<cfgvars, tvvars, pipevars, file, scenes, scenes_file, pyscene,
                   detected>>

\* split_routine with the file of --scenes there: what literal_eval makes
\* of its text is returned; its SyntaxError is caught nowhere
UseSavedScenes ==
    /\ srpc = "split_routine"
    /\ scenes \notin {"", "0"}
    /\ scenes_file.exists
    /\ LET stats == LiteralEval(Strip(scenes_file.text))
       IN  IF stats = SyntaxError
           THEN /\ srpc' = "crashed"
                /\ framenums' = framenums
           ELSE /\ srpc' = "returned"
                /\ framenums' = stats
    /\ UNCHANGED <<cfgvars, tvvars, pipevars, file, scenes, scenes_file, pyscene,
                   detected>>

\* split_routine runs the detection, which succeeds: the list is written
\* to the file of --scenes, if one is named, and returned
SceneDetection ==
    /\ srpc = "split_routine"
    /\ scenes # "0"
    /\ scenes = "" \/ ~scenes_file.exists
    /\ detected' = TRUE
    /\ scenes_file' = IF scenes # "" THEN File(Join(pyscene)) ELSE scenes_file
    /\ framenums' = PyList(pyscene)
    /\ srpc' = "returned"
    /\ UNCHANGED <<cfgvars, tvvars, pipevars, file, scenes, pyscene>>

\* the detection raises: terminate()
SceneDetectionError ==
    /\ srpc = "split_routine"
    /\ scenes # "0"
    /\ scenes = "" \/ ~scenes_file.exists
    /\ detected' = TRUE
    /\ srpc' = "terminated"
    /\ UNCHANGED <<cfgvars, tvvars, pipevars, file, scenes, scenes_file, pyscene,
                   framenums>>

\* setup_routine hands what split_routine returned to split()
SplitFramenums ==
    /\ srpc = "returned"
    /\ srpc' = "split"
    /\ UNCHANGED <<cfgvars, tvvars, pipevars, file, scenes, scenes_file, pyscene,
                   detected, framenums>>

\* the same command line is run once more: a new process, the file of
\* --scenes as the last one left it
RunAgain ==
    /\ srpc \in {"split", "crashed", "terminated"}
    /\ runs < MaxRuns
    /\ runs' = runs + 1
    /\ detected' = FALSE
    /\ framenums' = None
    /\ srpc' = "split_routine"
    /\ UNCHANGED <<cfgvars, tvvars, resume, interrupted, pc, fsvars, queue,
                   commands, initial, poolvars, scenes, scenes_file, pyscene,
                   file>>

\* the cut lists a detection can find: up to MaxCuts frame numbers within
\* 1..MaxCut, strictly increasing
CutLists ==
    {sc \in UNION {[1..n -> 1..MaxCut] : n \in 0..MaxCuts} :
        \A i \in 1..(Len(sc) - 1) : sc[i] < sc[i + 1]}

\* setup_routine of a process that does not resume, at split_routine
InitScenes ==
    /\ encoder = "aom"
    /\ video_params = FALSE
    /\ ffmpeg = TRUE
    /\ enc_exe = TRUE
    /\ input = TRUE
    /\ passes = Passes
    /\ boost = FALSE
    /\ no_check = FALSE
    /\ keep = FALSE
    /\ workers = 1
    /\ src = [c \in Chunks |-> 1]
    /\ st_size = [c \in Chunks |-> 1]
    /\ NoVmaf
    /\ Fresh
    /\ scenes \in {"", "0", "scenes.txt"}
    /\ scenes_file = NoFile
    /\ pyscene \in CutLists
    /\ detected = FALSE
    /\ framenums = None
    /\ srpc = "split_routine"

NextScenes ==
    \/ SkipDetection
    \/ UseSavedScenes
    \/ SceneDetection
    \/ SceneDetectionError
    \/ SplitFramenums
    \/ RunAgain

SpecScenes == InitScenes /\ [][NextScenes]_vars

\* ============================================================ properties
Journalled == IF journal.kind = "json" THEN DOMAIN journal.done ELSE {}

\* C1: journal updates of concurrent workers are serialized, no entry is
\* lost: when every task of the pool has ended and Concat is next, every
\* chunk of the queue whose frame counts matched (or that ran under
\* no_check) has its entry in done.json.
C1_NoEntryLost ==
    pc = "concat" =>
        \A c \in InQueue : (no_check \/ enc[c] = src[c]) => c \in Journalled

\* every entry is the source's frame count and, unless no_check, the
\* encoded file's
C2_EntriesAreVerified ==
    \A c \in Journalled :
        /\ journal.done[c] = src[c]
        /\ ~no_check => journal.done[c] = enc[c]

\* under no_check the step of frame_check that follows the read goes on
\* to the write, with the source's frame count as the entry
C2_NoCheckWritesFromSource ==
    \A c \in Chunks :
        (no_check /\ task[c] = "fc_probe" /\ task'[c] \notin {"fc_probe", "none"})
            => /\ task'[c] = "fc_dump"
               /\ c \in DOMAIN d'[c].done
               /\ d'[c].done[c] = src[c]

\* C2: every entry of done.json is the source frame count of its chunk
\* and, unless no_check, also the frame count of the encoded file; under
\* no_check frame_check writes the entry from the source count whatever
\* the encoded file holds.
C2_JournalMatchesFrames ==
    []C2_EntriesAreVerified /\ [][C2_NoCheckWritesFromSource]_vars

\* an entry written under no_check for an encoded file of another count
C2_Witness ==
    /\ no_check
    /\ \E c \in Journalled : enc[c] # src[c] /\ journal.done[c] = src[c]

\* get_video_queue of a resumed run returns the split chunks with no entry
C3_QueueStep ==
    (pc = "queue" /\ pc' \in {"compose", "terminated"} /\ resume
        /\ journal.kind = "json")
        => {queue'[i] : i \in 1..Len(queue')} = split \ DOMAIN journal.done

\* encoding_loop submits them, and nothing else
C3_SubmitStep ==
    (pc = "submit" /\ pc' = "pool" /\ resume /\ journal.kind = "json")
        => \A c \in Chunks :
              task'[c] = "queued" <=> (c \in split /\ c \notin DOMAIN journal.done)

\* the pool starts no chunk that has an entry
C3_StartStep ==
    \A c \in Chunks :
        (resume /\ task[c] = "queued" /\ task'[c] = "encode") => c \notin Journalled

\* a mismatch ends the task: no entry, and the main thread goes on
C3_MismatchStep ==
    \A c \in Chunks :
        (/\ task[c] = "fc_probe" /\ task'[c] \notin {"fc_probe", "none"}
         /\ ~no_check /\ enc[c] # 0 /\ enc[c] # src[c])
            => task'[c] = "finished" /\ journal' = journal /\ pc' = pc

\* C3: a resumed run with a done.json queues exactly the split chunks that
\* have no entry, submits each of them, and starts no chunk that has one;
\* a frame-count mismatch adds no entry and does not abort the job.
C3_ResumeQueuesUnjournalled ==
    [][C3_QueueStep /\ C3_SubmitStep /\ C3_StartStep /\ C3_MismatchStep]_vars

\* a resumed run encodes again the chunk a mismatch left out, and leaves
\* the journalled one alone
C3_Witness ==
    /\ resume /\ pc = "pool" /\ ~no_check
    /\ \E c, e \in Chunks :
          /\ c \in Journalled /\ task[c] = "none"
          /\ e \notin Journalled /\ task[e] = "encode"
          /\ enc[e] \notin {0, src[e]}

\* C4: a chunk whose encoder stage failed is never added to the journal,
\* and the job ends as a fatal error without reaching Concat.
C4_EncoderFailureIsFatal ==
    \A c \in stage_err : c \notin Journalled /\ pc \notin {"concat", "done"}

\* a step of the running pool that finds done.json complete leaves it so
C5_UpdateStep ==
    (pc = "pool" /\ journal.kind = "json") => journal'.kind = "json"

\* C5: every journal update is atomic: at every step of a mark-verified
\* rewrite done.json holds the complete content of before the update or
\* of after it, never an empty or cut file (which is what a reader, or a
\* resume after a kill at that step, would find).
C5_JournalUpdateAtomic == [][C5_UpdateStep]_vars

\* no step but the removal of the temp folder (setup of a fresh start,
\* Concat of the finished job) takes the total away or changes it
C6_TotalStep ==
    (journal.kind = "json" /\ pc \notin {"setup", "concat"})
        => journal'.kind = "json" /\ journal'.total = journal.total

\* C6: the journal's total is written once, when a fresh job enters the
\* Encode stage, and is there with the same value in every later state:
\* no mark-verified update and no resume changes or drops it.
C6_TotalWrittenOnce == [][C6_TotalStep]_vars

\* sum(done) <= total
C7_SumWithinTotal ==
    journal.kind = "json" => SumDone(journal.done) <= journal.total

\* sum(done) = total when Concat is performed
C7_ConcatStep ==
    (pc = "concat" /\ pc' = "done")
        => journal.kind = "json" /\ SumDone(journal.done) = journal.total

\* C7: the sum of the journal's done frame counts is at most its total at
\* every point, and equals it when Concat is performed and Done reached.
C7_SumEqualsTotalAtDone == []C7_SumWithinTotal /\ [][C7_ConcatStep]_vars

\* the counter of a process does not go down, and is made with initial
C8_CounterStep ==
    /\ (counter # -1 /\ counter' # -1) => counter' >= counter
    /\ (counter = -1 /\ counter' # -1)
          => counter' = IF resume THEN SumDone(journal.done) ELSE 0

\* C8: the progress counter never decreases while the job's process runs,
\* under every interleaving of the workers' updates, and it starts at 0
\* on a fresh run and at the sum of the journal's done frame counts on a
\* resumed one.
C8_CounterMonotone == [][C8_CounterStep]_vars

\* a resumed run whose counter started at the journal's sum and has moved
C8_Witness ==
    /\ resume /\ interrupted /\ pc = "pool"
    /\ initial > 0
    /\ counter > initial

\* the Concat of a resumed run after an interrupt, with every encoded file
\* as the uninterrupted run leaves it (its source's frame count)
C9_ConcatStep ==
    (/\ pc = "concat" /\ pc' = "done" /\ resume /\ interrupted
     /\ \A c \in Chunks : enc[c] = src[c])
        => /\ journal.kind = "json"
           /\ journal.total = TotalFrames
           /\ DOMAIN journal.done = Chunks
           /\ \A c \in Chunks : journal.done[c] = src[c]
           /\ output' = TotalFrames

\* C9: a run that was interrupted and resumed to completion ends with the
\* journal and the output frame count of an uninterrupted run on the same
\* input: the total, one entry per chunk with its frame count, and an
\* output of total frames.
C9_ResumeEqualsUninterrupted == [][C9_ConcatStep]_vars

\* get_video_queue of a resumed run whose journal lists every split chunk
C10_QueueStep ==
    (/\ pc = "queue" /\ resume /\ journal.kind = "json"
     /\ split = Chunks /\ DOMAIN journal.done = Chunks)
        => pc' # "terminated"

\* C10: a resumed run on a temp folder whose journal lists every split
\* chunk goes on to Concat and Done; it does not end in an error.
C10_CompleteResumeSucceeds == [][C10_QueueStep]_vars

\* the Encode stage has been aborted: the operator's interrupt has reached
\* the main thread in the pool's block, or a worker has called terminate()
Aborted == pc = "drain" \/ \E c \in Chunks : task[c] = "exit"

\* after the abort no command that waits is taken, and the files stay
C11_AbortStep ==
    Aborted => /\ \A c \in Chunks : task[c] = "queued" => task'[c] # "encode"
               /\ split' = split

\* C11: once an operator interrupt or a fatal worker error has been raised
\* during the Encode stage, no chunk that had not started encoding starts
\* encoding, and the split files are left in place.
C11_NoDispatchAfterAbort == [][C11_AbortStep]_vars

\* the arguments and the system have one of the precondition errors
PreconditionError ==
    \/ ~ffmpeg
    \/ encoder \notin Encoders
    \/ ~enc_exe
    \/ encoder = "svt_av1" /\ ~video_params
    \/ ~input

\* C12: a run with a precondition error (no ffmpeg, no encoder executable,
\* unknown encoder, svt_av1 without video params, no input) ends before
\* any step that touches the temp folder: no split file, encoded file,
\* journal or audio file is ever made.
C12_PreconditionErrorBeforeTemp ==
    PreconditionError =>
        split = {} /\ enc = NoEnc /\ journal = Absent /\ ~audio

\* C13: a process that has ended with exit code 0 has reached Done: an
\* operator interrupt, at any stage, ends it with another code.
C13_ZeroExitOnlyWhenDone ==
    (Stopped /\ ExitCode = 0) => (pc = "done" /\ output # -1)

\* the command of chunk c: its split path with the encode path of its name
Pair(c) == <<[dir |-> "split", name |-> c], [dir |-> "encode", name |-> c]>>

Occurrences(seq, x) == Cardinality({i \in DOMAIN seq : seq[i] = x})

\* the composed queue of a fresh run: one command for each split file
C14_Composed ==
    (~resume /\ pc \in {"loop", "loop_dump", "submit", "pool", "drain"})
        => /\ Len(commands) = Cardinality(split)
           /\ \A c \in split : Occurrences(commands, Pair(c)) = 1

\* in the pool each command waits once or has been taken
C14_Submitted ==
    (~resume /\ pc \in {"pool", "drain"})
        => \A c \in split :
              /\ task[c] # "none"
              /\ Occurrences(pending, Pair(c)) = IF task[c] = "queued" THEN 1 ELSE 0

\* a task starts from the queue only
C14_StartStep ==
    \A c \in Chunks :
        (task'[c] = "encode" /\ task[c] # "encode") => task[c] = "queued"

\* C14: on a fresh run every split chunk appears exactly once in the
\* composed command queue, each entry pairs the chunk's split path with
\* the encode path of the same name, and each entry is submitted to the
\* pool exactly once.
C14_EveryChunkQueuedOnce ==
    []C14_Composed /\ []C14_Submitted /\ [][C14_StartStep]_vars

\* both commands of a fresh run have been taken and have ended
C14_Witness ==
    /\ ~resume /\ pc = "pool"
    /\ Len(commands) = NChunks
    /\ \A c \in Chunks : task[c] = "finished"

\* the main thread enters a stage from the stage before it (Queue also
\* from the start of a resumed run that skips Setup, Split and Audio),
\* and Concat from the pool with no command waiting and no task running
C15_StageStep ==
    /\ pc' = "setup" => pc \in {"setup", "start"}
    /\ pc' = "split" => pc \in {"split", "setup"}
    /\ pc' = "audio" => pc \in {"audio", "split"}
    /\ pc' = "queue" => pc \in {"queue", "audio", "start"}
    /\ pc' = "compose" => pc \in {"compose", "queue"}
    /\ pc' = "loop" => pc \in {"loop", "compose"}
    /\ pc' = "pool" => pc \in {"pool", "submit"}
    /\ pc' = "concat"
          => \/ pc = "concat"
             \/ /\ pc = "pool"
                /\ pending = <<>>
                /\ \A c \in Chunks : task[c] \in {"none", "finished"}

\* while Concat runs no task of the pool does
C15_ConcatAlone ==
    pc = "concat" =>
        pending = <<>> /\ \A c \in Chunks : task[c] \in {"none", "finished"}

\* C15: the stages occur in the order Setup, Split, Audio, Queue, Encode,
\* Concat, and Concat starts only after every task submitted to the pool
\* has finished: no chunk is being encoded or journalled.
C15_StagesInOrder == []C15_ConcatAlone /\ [][C15_StageStep]_vars

\* Concat of a run that split, extracted the audio and ran both tasks
C15_Witness ==
    /\ pc = "concat" /\ audio /\ split = Chunks
    /\ \A c \in Chunks : task[c] = "finished"

\* between Setup and Split of a run without --resume the temp folder
\* holds nothing
C16_FreshIsEmpty ==
    (~resume /\ pc = "split")
        => split = {} /\ enc = NoEnc /\ journal = Absent /\ ~audio

\* a resumed run that finds a done.json does not enter Setup, Split or
\* Audio, and up to the pool no step changes the split files, the encoded
\* files or done.json
C16_ResumeStep ==
    (/\ resume /\ journal.kind # "absent"
     /\ pc \in {"main", "inputs", "start", "queue", "compose", "loop", "submit"})
        => /\ pc' \notin {"setup", "split", "audio"}
           /\ split' = split /\ enc' = enc /\ journal' = journal
           /\ audio' = audio

\* C16: without --resume an existing temp folder is removed before any
\* split, so no split file, encoded file or journal of an earlier run
\* survives; with --resume and a journal, Setup, Split and Audio are not
\* run and the split files, encoded files and journal stay unchanged
\* until the Encode stage.
C16_FreshRemovesResumeKeeps == []C16_FreshIsEmpty /\ [][C16_ResumeStep]_vars

\* a resumed run at the pool's door with the files of the killed one
C16_Witness ==
    /\ resume /\ interrupted /\ pc = "submit"
    /\ journal.kind = "json" /\ split = Chunks /\ enc # NoEnc

Min(a, b) == IF a <= b THEN a ELSE b

\* the tasks that run are at most min(workers, clips)
C17_WithinWorkers ==
    pc \in {"pool", "drain"}
        => Cardinality(Running) <= Min(workers, Cardinality(split))

\* the command of a task that runs does not wait in the queue as well,
\* and no command waits twice
C17_OneWorkerPerChunk ==
    /\ \A c \in Running : Occurrences(pending, Pair(c)) = 0
    /\ \A i, j \in DOMAIN pending : i # j => pending[i] # pending[j]

\* a task that runs is not started again
C17_StartStep ==
    \A c \in Chunks :
        (c \in Running /\ stage'[c] = 1 /\ task'[c] = "encode")
            => (stage[c] = 1 /\ task[c] = "encode")

\* C17: at every moment of the Encode stage the number of chunks being
\* encoded concurrently is at most min(workers, chunk count), and no chunk
\* is run by two workers at the same time.
C17_BoundedConcurrency ==
    []C17_WithinWorkers /\ []C17_OneWorkerPerChunk /\ [][C17_StartStep]_vars

\* one worker for two chunks: one runs, the other waits
C17_Witness ==
    /\ pc = "pool" /\ workers = 1
    /\ Cardinality(Running) = 1
    /\ \E c \in Chunks : task[c] = "queued"

\* the queue get_video_queue returned is by non-increasing st_size, and so
\* are the commands made of it
C18_Ordered ==
    /\ \A i, j \in DOMAIN queue :
          i < j => st_size[queue[i]] >= st_size[queue[j]]
    /\ \A i, j \in DOMAIN commands :
          i < j => st_size[commands[i][1].name] >= st_size[commands[j][1].name]

\* when a chunk starts no chunk of a larger split file waits
C18_StartStep ==
    \A c, e \in Chunks :
        (task[c] = "queued" /\ task'[c] = "encode" /\ st_size[e] > st_size[c])
            => task[e] # "queued"

\* C18: chunks are dispatched largest first: the queue is ordered by
\* non-increasing split-file size, and a chunk starts encoding only after
\* every queued chunk with a strictly larger split file has started.
C18_LargestFirst == []C18_Ordered /\ [][C18_StartStep]_vars

\* the smaller chunk runs, the larger one was started before it
C18_Witness ==
    /\ pc = "pool"
    /\ \E c, e \in Chunks :
          /\ st_size[e] > st_size[c]
          /\ task[c] = "encode" /\ task[e] \in {"fc_read", "finished"}

\* the integer nearest to a score given in halves, the even one of two
Nearest(m) ==
    CHOOSE n \in (m \div 2)..((m \div 2) + 1) :
        /\ 2 * n - m \in {-1, 0, 1}
        /\ 2 * n # m => n % 2 = 0

\* C19: when target_vmaf returns: if the first probe's rounded score is
\* above the target it returns max_cq after exactly one probe; otherwise
\* if the second probe's rounded score is below the target it returns
\* min_cq after exactly two probes; otherwise all vmaf_steps probes have
\* been run and the quantizer comes from the interpolation.
C19_EarlyExits ==
    tvpc = "returned" =>
        IF Nearest(mean[0]) > vmaf_target
        THEN tg_cq = max_cq /\ Len(vmaf_cq) = 1 /\ vmaf_cq[1][2] = max_cq
        ELSE IF Nearest(mean[1]) < vmaf_target
        THEN tg_cq = min_cq /\ Len(vmaf_cq) = 2 /\ vmaf_cq[2][2] = min_cq
        ELSE Len(vmaf_cq) = vmaf_steps /\ tg_cq \in InterpolateData

\* a search that went past both skips, the first score half a point
\* above the target and rounded down to it, and ran every probe
C19_Witness ==
    /\ tvpc = "returned"
    /\ mean[0] = 2 * vmaf_target + 1
    /\ Round(mean[0]) = vmaf_target
    /\ Len(vmaf_cq) = vmaf_steps

\* C20: with min_cq equal to max_cq target_vmaf returns that value after
\* a single probe, whatever the probe's score and the target.
C20_EqualBoundsOneProbe ==
    (tvpc = "returned" /\ min_cq = max_cq)
        => (tg_cq = min_cq /\ Len(vmaf_cq) = 1)

\* target-quality or boost mode is on
ModeOn == vmaf_target # 0 \/ boost

\* C21: in target-quality or boost mode every stage a worker runs for a
\* chunk carries the chosen quantizer: with two passes both, with one
\* pass the single one, all to the same value; and the task goes through
\* its stages to frame_check: it does not end before them.
C21_StagesCarryQuantizer ==
    \A c \in Chunks :
        (ModeOn /\ task[c] \notin {"none", "queued"})
            => /\ task[c] # "error"
               /\ Stages(c) = passes
               /\ \A i \in 1..Stages(c) :
                     /\ cmds[c].items[i].type = "str"
                     /\ cmds[c].items[i].cq # 0
                     /\ cmds[c].items[i].cq = cmds[c].items[1].cq

\* split_routine is entered with the file of --scenes there
SavedScenes == srpc = "split_routine" /\ scenes \notin {"", "0"} /\ scenes_file.exists

\* C22: a cut list written to the scenes file is read back identical by
\* a later run, whatever the list (the empty one and one of a single cut
\* too), and with the file there no scene detection is run: from
\* split_routine entered with the file there, the step returns a sequence
\* of the cuts the detection had found, and the detection has not run.
C22_ScenesRoundTrip ==
    [][SavedScenes =>
          /\ srpc' = "returned"
          /\ ~detected'
          /\ framenums'.type \in {"list", "tuple"}
          /\ framenums'.items = pyscene]_vars

\* C23: a scene detection that finds no cut ends the job with a fatal
\* error: split_routine does not return the empty list, and setup_routine
\* does not hand it to split().
C23_EmptyDetectionAborts ==
    (detected /\ pyscene = <<>>) => srpc = "terminated"

\* C24: with several inputs in one temp folder, what an earlier input left
\* there (its done.json, its split files) is never taken as the state of
\* a later input to resume from: setup_routine of a later input does not
\* skip setup and split, whatever --resume and --keep are.
C24_LaterInputSplits ==
    [][(pc = "start" /\ file > 1) => pc' = "setup"]_vars

\* encode() has returned or raised for the chunk
Ended(c) == task[c] \in {"finished", "error", "exit"}

\* C25: with external processes that exit, every chunk submitted to the
\* pool has its task end (journalled, left out after a mismatch, or ended
\* by an error), and the Encode stage ends: an error in one task neither
\* leaves the pool waiting nor keeps the queued chunks from being run.
C25_PoolEnds ==
    /\ \A c \in Chunks : (task[c] = "queued") ~> Ended(c)
    /\ (pc = "pool") ~> (pc \notin {"pool", "drain"} /\ \A c \in InQueue : Ended(c))

\* the stage is over after a task whose stage raised ended in terminate()
\* and another task, started after it, went through frame_check
C25_Witness ==
    /\ pc = "terminated"
    /\ \E a, b \in Chunks :
          /\ a \in stage_err
          /\ task[a] = "exit"
          /\ task[b] = "finished"
          /\ queue = <<a, b>>
          /\ workers = 1

====
